---- MODULE Spec2Model ----
(***************************************************************************)
(* A model of pyugrid: the UGrid mesh store (pyugrid/ugrid.py) and the     *)
(* UGRID netCDF loader (pyugrid/read_netcdf.py).                           *)
(*                                                                         *)
(* A numpy array is a record [none, shape, flat]: its shape tuple and its  *)
(* elements in row-major order; none marks Python's None where the code    *)
(* keeps None in place of an array.                                        *)
(***************************************************************************)
EXTENDS Integers, Sequences, FiniteSets, TLC

VARIABLES
    nodes,      \* UGrid._nodes: (N,2) coordinate array
    faces,      \* UGrid._faces: None or (N,3) index array
    edges,      \* UGrid._edges: None or index array
    ffc,        \* UGrid._face_face_connectivity: None or (N,3) index array
    data,       \* UGrid._data: dict name -> DataSet
    mesh_name,  \* the attribute mesh_name the loader gives the grid object
    extra,      \* the other plain attributes the loader gives the grid object
    last,       \* the last call made on the mesh: its DataSet argument, its exception
    nc,         \* the netCDF dataset load_grid_from_nc reads: its variables in order
    asked       \* the mesh_name argument of the last call of load_grid_from_nc

vars == <<nodes, faces, edges, ffc, data, mesh_name, extra, last, nc, asked>>

\* what the methods of UGrid leave alone
loaderVars == <<mesh_name, extra, nc, asked>>

----------------------------------------------------------------------------
(* Bounds of the model *)

MaxNodes == 1
MaxIndex == 1
MaxFaces == 1
MaxEdges == 1
MaxData == 1
DataMaxLen == 2
BuildMaxFaces == 3
BuildMaxIndex == 3
EdgeMaxFaces == 2
EdgeMaxIndex == 3
LoadNumNodes == 2
LoadMaxRows == 1
LayoutMaxRows == 3
LayoutMaxIndex == 1
LocateMaxNodes == 3
LocateMaxFaces == 1
RoundTripMaxNodes == 2
RoundTripMaxRows == 1
SelectMaxMeshes == 2

----------------------------------------------------------------------------
(* numpy arrays *)

NoneArr == [none |-> TRUE, shape |-> <<>>, flat |-> <<>>]

Arr(shape, flat) == [none |-> FALSE, shape |-> shape, flat |-> flat]

IsNone(a) == a.none

\* len(a): the leading dimension; len(None) raises TypeError (callers test IsNone)
PyLen(a) == a.shape[1]

NCols(a) == a.shape[2]

\* a[i] of a 2-D array, i counted from 0
Row(a, i) == SubSeq(a.flat, i * NCols(a) + 1, (i + 1) * NCols(a))

\* seq[j] with Python's indexing: j counted from 0, negative j from the end
PyAt(seq, j) == seq[((j + Len(seq)) % Len(seq)) + 1]

\* a.reshape((-1, k)) is possible iff the size is a multiple of k
CanReshape(a, k) == Len(a.flat) % k = 0

Reshape(a, k) == Arr(<<Len(a.flat) \div k, k>>, a.flat)

\* the arrays of shape (n, k), n <= maxRows, with entries in vals
ArraysOf(maxRows, k, vals) ==
    UNION { { Arr(<<n, k>>, f) : f \in [1..(n * k) -> vals] } : n \in 0..maxRows }

\* every ordering of a finite set, as sequences
RECURSIVE Orderings(_)
Orderings(S) ==
    IF S = {} THEN {<<>>}
    ELSE UNION { { <<x>> \o ord : ord \in Orderings(S \ {x}) } : x \in S }

RECURSIVE Concat(_)
Concat(ss) == IF ss = <<>> THEN <<>> ELSE Head(ss) \o Concat(Tail(ss))

----------------------------------------------------------------------------
(* DataSet *)

Locations == {"node", "edge", "face"}

FieldNames == {"u", "v"}

DataSet(name, location, d) == [name |-> name, location |-> location, data |-> d]

NoField == DataSet("", "", NoneArr)

DataArr(n) == Arr(<<n>>, [i \in 1..n |-> 0])

FieldsUpTo(maxLen) ==
    { DataSet(n, l, DataArr(k)) : n \in FieldNames, l \in Locations, k \in 0..maxLen }

Fields == FieldsUpTo(MaxData)

----------------------------------------------------------------------------
(* UGrid *)

\* a call that got the DataSet arg (NoField: none) and raised the exception
\* raised ("": it returned)
Call(arg, raised) == [arg |-> arg, raised |-> raised]

\* the coordinates of the n first points of a fixed lattice
NodeArr(n) == Arr(<<n, 2>>, Concat([i \in 1..n |-> <<(i - 1) % 2, (i - 1) \div 2>>]))

NodeInputs == { NodeArr(n) : n \in 0..MaxNodes }

FaceInputs == ArraysOf(MaxFaces, 3, 0..MaxIndex)

EdgeInputs == ArraysOf(MaxEdges, 2, 0..MaxIndex)

\* an attribute the object does not have (yet)
Unset == "<unset>"

\* load_grid_from_nc has not been called; it was called without a mesh_name
NotCalled == "<not called>"

NoName == "<None>"

\* UGrid.__init__(nodes, faces, edges): None leaves the default
Construct(n, f, e) ==
    /\ nodes = IF IsNone(n) THEN Arr(<<0, 2>>, <<>>) ELSE Reshape(n, 2)
    /\ faces = IF IsNone(f) THEN NoneArr ELSE Reshape(f, 3)
    /\ edges = IF IsNone(e) THEN NoneArr ELSE Reshape(e, 2)
    /\ ffc = NoneArr
    /\ data = [k \in {} |-> NoField]
    /\ mesh_name = Unset
    /\ extra = [k \in {} |-> NoneArr]
    /\ last = Call(NoField, "")

\* no dataset at hand: the mesh is worked on in memory only
NoDataset ==
    /\ nc = <<>>
    /\ asked = NotCalled

Init ==
    \E n \in NodeInputs \cup {NoneArr}, f \in FaceInputs \cup {NoneArr},
       e \in EdgeInputs \cup {NoneArr} : Construct(n, f, e) /\ NoDataset

\* add_data reads only the lengths of the mesh's arrays: SpecData runs the mesh
\* store over arrays of every length up to DataMaxLen whose indexes are all node 0
DataNodeInputs == { NodeArr(n) : n \in 0..DataMaxLen }

DataFaceInputs == ArraysOf(DataMaxLen, 3, {0})

DataEdgeInputs == ArraysOf(DataMaxLen, 2, {0})

DataFields == FieldsUpTo(DataMaxLen)

InitData ==
    \E n \in DataNodeInputs \cup {NoneArr}, f \in DataFaceInputs \cup {NoneArr},
       e \in DataEdgeInputs \cup {NoneArr} : Construct(n, f, e) /\ NoDataset

SetNodes(a) ==
    /\ nodes' = Reshape(a, 2)
    /\ last' = Call(NoField, "")
    /\ UNCHANGED <<faces, edges, ffc, data, loaderVars>>

DelNodes ==
    /\ nodes' = Arr(<<0, 2>>, <<>>)
    /\ edges' = NoneArr
    /\ faces' = NoneArr
    /\ last' = Call(NoField, "")
    /\ UNCHANGED <<ffc, data, loaderVars>>

SetFaces(a) ==
    /\ faces' = Reshape(a, 3)
    /\ last' = Call(NoField, "")
    /\ UNCHANGED <<nodes, edges, ffc, data, loaderVars>>

DelFaces ==
    /\ faces' = NoneArr
    /\ last' = Call(NoField, "")
    /\ UNCHANGED <<nodes, edges, ffc, data, loaderVars>>

SetEdges(a) ==
    /\ edges' = Reshape(a, 2)
    /\ last' = Call(NoField, "")
    /\ UNCHANGED <<nodes, faces, ffc, data, loaderVars>>

DelEdges ==
    /\ edges' = NoneArr
    /\ last' = Call(NoField, "")
    /\ UNCHANGED <<nodes, faces, ffc, data, loaderVars>>

\* the size check of add_data with every location measured against the nodes
AddDataCheckNodesOnly(f) ==
    IF PyLen(f.data) # PyLen(nodes) THEN "ValueError" ELSE ""

\* the size check of add_data on a mesh with the arrays n, e, fc: the exception it
\* raises, "" when it passes
SizeCheck(f, n, e, fc) ==
    LET arr == CASE f.location = "node" -> n
                 [] f.location = "edge" -> e
                 [] f.location = "face" -> fc
    IN  IF IsNone(arr) THEN "TypeError"
        ELSE IF PyLen(f.data) # PyLen(arr) THEN "ValueError"
        ELSE ""

AddDataCheck(f) == SizeCheck(f, nodes, edges, faces)

\* self._data[data_set.name] = data_set
StoreField(d, f) == [k \in DOMAIN d \cup {f.name} |-> IF k = f.name THEN f ELSE d[k]]

AddData(f) ==
    /\ data' = IF AddDataCheck(f) = "" THEN StoreField(data, f) ELSE data
    /\ last' = Call(f, AddDataCheck(f))
    /\ UNCHANGED <<nodes, faces, edges, ffc, loaderVars>>

----------------------------------------------------------------------------
(* Connectivity builders *)

\* the edge of local position j of a face, left in the order of traversal
CanonEdgeUnsorted(face, j) == <<PyAt(face, j - 1), PyAt(face, j)>>

\* the edge of local position j of a face: (face[j-1], face[j]), smaller node first
CanonEdge(face, j) ==
    LET a == PyAt(face, j - 1)
        b == PyAt(face, j)
    IN  IF a > b THEN <<b, a>> ELSE <<a, b>>

\* edges.pop(edge, None) leaves the dict without the key
DictPop(d, key) == [k \in DOMAIN d \ {key} |-> d[k]]

\* edges[edge] = (i, j)
DictPut(d, key, val) == [k \in DOMAIN d \cup {key} |-> IF k = key THEN val ELSE d[k]]

\* The loops of build_face_face_connectivity, writing only the current face's slot
RECURSIVE FaceFaceLoopOneSided(_, _, _, _)
FaceFaceLoopOneSided(fs, k, ff, pend) ==
    IF k = PyLen(fs) * NCols(fs) THEN ff
    ELSE LET i == k \div NCols(fs)
             j == k % NCols(fs)
             edge == CanonEdge(Row(fs, i), j)
         IN  IF edge \in DOMAIN pend
             THEN FaceFaceLoopOneSided(fs, k + 1, [ff EXCEPT ![k + 1] = pend[edge][1]],
                                       DictPop(pend, edge))
             ELSE FaceFaceLoopOneSided(fs, k + 1, ff, DictPut(pend, edge, <<i, j>>))

\* The loops of build_face_face_connectivity from slot k = i * num_vertices + j on:
\* ff is face_face (flat), pend the dict from edge to the (face, position) waiting.
RECURSIVE FaceFaceLoop(_, _, _, _)
FaceFaceLoop(fs, k, ff, pend) ==
    IF k = PyLen(fs) * NCols(fs) THEN ff
    ELSE LET i == k \div NCols(fs)
             j == k % NCols(fs)
             edge == CanonEdge(Row(fs, i), j)
         IN  IF edge \in DOMAIN pend
             THEN LET face_num == pend[edge][1]
                      edge_num == pend[edge][2]
                  IN  FaceFaceLoop(fs, k + 1,
                          [ff EXCEPT ![k + 1] = face_num,
                                     ![face_num * NCols(fs) + edge_num + 1] = i],
                          DictPop(pend, edge))
             ELSE FaceFaceLoop(fs, k + 1, ff, DictPut(pend, edge, <<i, j>>))

FaceFace(fs) ==
    Arr(<<PyLen(fs), NCols(fs)>>,
        FaceFaceLoop(fs, 0, [k \in 1..(PyLen(fs) * NCols(fs)) |-> -1],
                     [e \in {} |-> <<0, 0>>]))

\* build_face_face_connectivity: self.faces.shape raises AttributeError on None
BuildFaceFace ==
    /\ ffc' = IF IsNone(faces) THEN ffc ELSE FaceFace(faces)
    /\ last' = Call(NoField,
                    IF IsNone(faces) THEN "AttributeError" ELSE "")
    /\ UNCHANGED <<nodes, faces, edges, data, loaderVars>>

\* the set build_edges would accumulate without the edge that wraps around
EdgeSetNoWrap(fs) ==
    { CanonEdge(Row(fs, i), j) : i \in 0..(PyLen(fs) - 1), j \in 1..(NCols(fs) - 1) }

\* the set build_edges accumulates
EdgeSet(fs) == { CanonEdge(Row(fs, i), j) : i \in 0..(PyLen(fs) - 1), j \in 0..(NCols(fs) - 1) }

\* np.array(list(edges), dtype=IND_DT) for the list in the order ord
EdgeArray(ord) == IF ord = <<>> THEN Arr(<<0>>, <<>>) ELSE Arr(<<Len(ord), 2>>, Concat(ord))

\* build_edges: the iteration order of the set is not fixed by the code
BuildEdges ==
    /\ IF IsNone(faces)
       THEN /\ edges' = edges
            /\ last' = Call(NoField, "AttributeError")
       ELSE /\ \E ord \in Orderings(EdgeSet(faces)) : edges' = EdgeArray(ord)
            /\ last' = Call(NoField, "")
    /\ UNCHANGED <<nodes, faces, ffc, data, loaderVars>>

----------------------------------------------------------------------------
(* The mesh store under every mutation *)

Next ==
    \/ \E a \in NodeInputs : SetNodes(a)
    \/ DelNodes
    \/ \E a \in FaceInputs : SetFaces(a)
    \/ DelFaces
    \/ \E a \in EdgeInputs : SetEdges(a)
    \/ DelEdges
    \/ BuildFaceFace
    \/ BuildEdges
    \/ \E f \in Fields : AddData(f)

Spec == Init /\ [][Next]_vars

NextData ==
    \/ \E a \in DataNodeInputs : SetNodes(a)
    \/ DelNodes
    \/ \E a \in DataFaceInputs : SetFaces(a)
    \/ DelFaces
    \/ \E a \in DataEdgeInputs : SetEdges(a)
    \/ DelEdges
    \/ BuildEdges
    \/ \E f \in DataFields : AddData(f)

SpecData == InitData /\ [][NextData]_vars

----------------------------------------------------------------------------
(* The connectivity builders over every face set *)

\* a mesh constructed from nodes and faces alone: no faces, or any (n, 3) array of
\* indexes into the nodes, n <= BuildMaxFaces
InitBuild ==
    \/ Construct(NodeArr(BuildMaxIndex + 1), NoneArr, NoneArr) /\ NoDataset
    \/ \E n \in 0..BuildMaxFaces : \E f \in [1..(n * 3) -> 0..BuildMaxIndex] :
          Construct(NodeArr(BuildMaxIndex + 1), Arr(<<n, 3>>, f), NoneArr) /\ NoDataset

SpecFaceFace == InitBuild /\ [][BuildFaceFace]_vars

InitEdges ==
    \/ Construct(NodeArr(EdgeMaxIndex + 1), NoneArr, NoneArr) /\ NoDataset
    \/ \E n \in 0..EdgeMaxFaces : \E f \in [1..(n * 3) -> 0..EdgeMaxIndex] :
          Construct(NodeArr(EdgeMaxIndex + 1), Arr(<<n, 3>>, f), NoneArr) /\ NoDataset

\* build_edges called on a mesh whose edges are not set yet
NextEdges == IsNone(edges) /\ BuildEdges

SpecEdges == InitEdges /\ [][NextEdges]_vars

----------------------------------------------------------------------------
(* The netCDF dataset the loader reads *)

\* a netCDF variable: its name, its attributes, its values
NcVar(name, attrs, d) == [name |-> name, attrs |-> attrs, data |-> d]

VarNames(ds) == { ds[i].name : i \in 1..Len(ds) }

\* nc.variables[name]; a name that is absent raises KeyError (callers test VarNames)
Variable(ds, name) == ds[CHOOSE i \in 1..Len(ds) : ds[i].name = name]

\* whether reading the attribute succeeds (AttributeError otherwise)
HasAttr(v, a) == a \in DOMAIN v.attrs

\* str.strip() on the attribute values of the model
Strip(s) == IF s = " mesh_topology " THEN "mesh_topology" ELSE s

\* str.split() on the attribute values of the model: names separated by a blank
Split(s) ==
    CASE s = "lon lat" -> <<"lon", "lat">>
      [] s = "lat lon" -> <<"lat", "lon">>
      [] s = "node_lon node_lat" -> <<"node_lon", "node_lat">>
      [] s = "mesh_edge_lon mesh_edge_lat" -> <<"mesh_edge_lon", "mesh_edge_lat">>
      [] s = "mesh_face_lon mesh_face_lat" -> <<"mesh_face_lon", "mesh_face_lat">>
      [] OTHER -> <<s>>

\* int() of an attribute value; the model's topology_dimension values are integers
PyInt(x) == x

\* name.lstrip(mesh_name).lstrip('_') on the variable names of the model
StripMeshName(name, mesh) ==
    CASE name = "mesh_u" /\ mesh = "mesh" -> "u"
      [] name = "mesh_v" /\ mesh = "mesh" -> "v"
      [] OTHER -> name

\* a.T of a 2-D array
Transpose(a) ==
    Arr(<<a.shape[2], a.shape[1]>>,
        [k \in 1..Len(a.flat) |->
            a.flat[((k - 1) % a.shape[1]) * a.shape[2] + ((k - 1) \div a.shape[1]) + 1]])

----------------------------------------------------------------------------
(* read_netcdf.py *)

\* is_valid_mesh with the topology dimension left unchecked
IsValidMeshAnyDimension(ds, varname) ==
    /\ varname \in VarNames(ds)
    /\ HasAttr(Variable(ds, varname), "cf_role")
    /\ Strip(Variable(ds, varname).attrs.cf_role) = "mesh_topology"

IsValidMesh(ds, varname) ==
    /\ varname \in VarNames(ds)
    /\ LET mesh_var == Variable(ds, varname)
       IN  /\ HasAttr(mesh_var, "cf_role")
           /\ Strip(mesh_var.attrs.cf_role) = "mesh_topology"
           /\ HasAttr(mesh_var, "topology_dimension")
           /\ PyInt(mesh_var.attrs.topology_dimension) = 2

RECURSIVE FindMeshNamesFrom(_, _)
FindMeshNamesFrom(ds, i) ==
    IF i > Len(ds) THEN <<>>
    ELSE (IF IsValidMesh(ds, ds[i].name) THEN <<ds[i].name>> ELSE <<>>)
         \o FindMeshNamesFrom(ds, i + 1)

FindMeshNames(ds) == FindMeshNamesFrom(ds, 1)

grid_defs ==
    << [grid_attr |-> "faces", role |-> "face_node_connectivity", num_ind |-> 3],
       [grid_attr |-> "face_face_connectivity", role |-> "face_face_connectivity", num_ind |-> 3],
       [grid_attr |-> "boundaries", role |-> "boundary_node_connectivity", num_ind |-> 2],
       [grid_attr |-> "edges", role |-> "edge_node_connectivity", num_ind |-> 2] >>

coord_defs ==
    << [grid_attr |-> "nodes", role |-> "node_coordinates", required |-> TRUE],
       [grid_attr |-> "face_coordinates", role |-> "face_coordinates", required |-> FALSE],
       [grid_attr |-> "edge_coordinates", role |-> "edge_coordinates", required |-> FALSE],
       [grid_attr |-> "boundary_coordinates", role |-> "boundary_coordinates",
        required |-> FALSE] >>

\* the grid object as the loader sees it, with the exception raised so far
CurrentGrid ==
    [nodes |-> nodes, faces |-> faces, edges |-> edges, ffc |-> ffc, data |-> data,
     mesh_name |-> mesh_name, extra |-> extra, raised |-> ""]

Raise(g, exc) == [g EXCEPT !.raised = exc]

\* setattr(grid, attr, a): the properties of UGrid reshape (the one of
\* face_face_connectivity stores nothing), any other name is a plain attribute
SetAttr(g, attr, a) ==
    CASE attr = "nodes" ->
            IF CanReshape(a, 2) THEN [g EXCEPT !.nodes = Reshape(a, 2)]
            ELSE Raise(g, "ValueError")
      [] attr = "faces" ->
            IF CanReshape(a, 3) THEN [g EXCEPT !.faces = Reshape(a, 3)]
            ELSE Raise(g, "ValueError")
      [] attr = "edges" ->
            IF CanReshape(a, 2) THEN [g EXCEPT !.edges = Reshape(a, 2)]
            ELSE Raise(g, "ValueError")
      [] attr = "face_face_connectivity" ->
            IF IsNone(g.faces) THEN Raise(g, "TypeError")
            ELSE IF CanReshape(a, NCols(g.faces)) THEN g
            ELSE Raise(g, "ValueError")
      [] OTHER -> [g EXCEPT !.extra = DictPut(@, attr, a)]

\* the mesh selection of load_grid_from_nc: the exception raised, the mesh chosen
SelectMesh(ds, name) ==
    IF name = NoName
    THEN LET meshes == FindMeshNames(ds)
         IN  IF Len(meshes) = 0 THEN [raised |-> "ValueError", mesh |-> Unset]
             ELSE IF Len(meshes) > 1 THEN [raised |-> "ValueError", mesh |-> Unset]
             ELSE [raised |-> "", mesh |-> meshes[1]]
    ELSE IF ~IsValidMesh(ds, name) THEN [raised |-> "ValueError", mesh |-> Unset]
         ELSE [raised |-> "", mesh |-> name]

\* The loop over coord_vars from the i-th on: col0 and col1 are the columns of the
\* np.empty array filled so far.
RECURSIVE FillCoords(_, _, _, _)
FillCoords(coord_vars, i, col0, col1) ==
    IF i > Len(coord_vars) THEN [raised |-> "", col0 |-> col0, col1 |-> col1]
    ELSE LET var == coord_vars[i]
             fits == PyLen(var.data) = Len(col0) \/ PyLen(var.data) = 1
             vals == [k \in 1..Len(col0) |->
                         IF PyLen(var.data) = 1 THEN var.data.flat[1] ELSE var.data.flat[k]]
         IN  IF ~HasAttr(var, "standard_name")
             THEN [raised |-> "ValueError", col0 |-> col0, col1 |-> col1]
             ELSE IF var.attrs.standard_name = "latitude"
             THEN IF fits THEN FillCoords(coord_vars, i + 1, col0, vals)
                  ELSE [raised |-> "ValueError", col0 |-> col0, col1 |-> col1]
             ELSE IF var.attrs.standard_name = "longitude"
             THEN IF fits THEN FillCoords(coord_vars, i + 1, vals, col1)
                  ELSE [raised |-> "ValueError", col0 |-> col0, col1 |-> col1]
             ELSE [raised |-> "ValueError", col0 |-> col0, col1 |-> col1]

\* one round of the loop over coord_defs; junk is what np.empty happens to hold
LoadCoord(ds, mesh_var, g, defs, junk) ==
    IF ~HasAttr(mesh_var, defs.role)
    THEN IF defs.required THEN Raise(g, "ValueError") ELSE g
    ELSE LET coord_names == Split(Strip(mesh_var.attrs[defs.role]))
         IN  IF \E i \in 1..Len(coord_names) : coord_names[i] \notin VarNames(ds)
             THEN Raise(g, "ValueError")
             ELSE LET coord_vars == [i \in 1..Len(coord_names) |-> Variable(ds, coord_names[i])]
                      num_node == PyLen(coord_vars[1].data)
                      filled == FillCoords(coord_vars, 1, [k \in 1..num_node |-> junk],
                                           [k \in 1..num_node |-> junk])
                  IN  IF filled.raised # "" THEN Raise(g, filled.raised)
                      ELSE SetAttr(g, defs.grid_attr,
                                   Arr(<<num_node, 2>>,
                                       [k \in 1..(2 * num_node) |->
                                           IF k % 2 = 1 THEN filled.col0[(k + 1) \div 2]
                                           ELSE filled.col1[k \div 2]]))

RECURSIVE LoadCoords(_, _, _, _, _)
LoadCoords(ds, mesh_var, g, i, junk) ==
    IF i > Len(coord_defs) \/ g.raised # "" THEN g
    ELSE LoadCoords(ds, mesh_var, LoadCoord(ds, mesh_var, g, coord_defs[i], junk), i + 1, junk)

\* the index base of a connectivity variable
StartIndex(var) == IF HasAttr(var, "start_index") THEN var.attrs.start_index ELSE 0

\* ConnArray that leaves the index base of the file alone
ConnArrayNoShift(var, num_ind) ==
    IF var.data.shape[1] = num_ind THEN Transpose(var.data) ELSE var.data

\* ConnArray that shifts the flag values with the indexes
ConnArrayNoFlags(var, num_ind) ==
    LET array == IF var.data.shape[1] = num_ind THEN Transpose(var.data) ELSE var.data
        start_index == StartIndex(var)
    IN  IF start_index >= 1
        THEN [array EXCEPT !.flat = [k \in 1..Len(array.flat) |-> array.flat[k] - start_index]]
        ELSE array

\* the array of a connectivity variable as the loader hands it to the grid
ConnArray(var, num_ind) ==
    LET array == IF var.data.shape[1] = num_ind THEN Transpose(var.data) ELSE var.data
        start_index == StartIndex(var)
        shifted == [array EXCEPT !.flat = [k \in 1..Len(array.flat) |-> array.flat[k] - start_index]]
    IN  IF start_index >= 1
        THEN IF HasAttr(var, "flag_values")
             THEN [shifted EXCEPT !.flat =
                      [k \in 1..Len(shifted.flat) |->
                          IF shifted.flat[k] = var.attrs.flag_values - start_index
                          THEN var.attrs.flag_values ELSE shifted.flat[k]]]
             ELSE shifted
        ELSE array

\* one round of the loop over grid_defs
LoadConn(ds, mesh_var, g, defs) ==
    IF ~HasAttr(mesh_var, defs.role) THEN Raise(g, "AttributeError")
    ELSE IF mesh_var.attrs[defs.role] \notin VarNames(ds) THEN g
    ELSE SetAttr(g, defs.grid_attr,
                 ConnArray(Variable(ds, mesh_var.attrs[defs.role]), defs.num_ind))

RECURSIVE LoadConns(_, _, _, _)
LoadConns(ds, mesh_var, g, i) ==
    IF i > Len(grid_defs) \/ g.raised # "" THEN g
    ELSE LoadConns(ds, mesh_var, LoadConn(ds, mesh_var, g, grid_defs[i]), i + 1)

\* one round of the loop over the variables that looks for data arrays
LoadField(var, g) ==
    IF ~HasAttr(var, "location") \/ ~HasAttr(var, "mesh") THEN g
    ELSE IF var.attrs.mesh # g.mesh_name THEN g
    ELSE IF var.attrs.location \notin Locations THEN Raise(g, "ValueError")
    ELSE LET ds == DataSet(StripMeshName(var.name, g.mesh_name), var.attrs.location, var.data)
             check == SizeCheck(ds, g.nodes, g.edges, g.faces)
         IN  IF check # "" THEN Raise(g, check)
             ELSE [g EXCEPT !.data = StoreField(@, ds)]

RECURSIVE LoadFields(_, _, _)
LoadFields(ds, g, i) ==
    IF i > Len(ds) \/ g.raised # "" THEN g
    ELSE LoadFields(ds, LoadField(ds[i], g), i + 1)

\* load_grid_from_nc(filename, grid, mesh_name) on the dataset ds and the grid g
LoadGrid(ds, g, name, junk) ==
    LET chosen == SelectMesh(ds, name)
    IN  IF chosen.raised # "" THEN Raise(g, chosen.raised)
        ELSE LET mesh_var == Variable(ds, chosen.mesh)
                 g1 == [g EXCEPT !.mesh_name = chosen.mesh]
                 g2 == LoadCoords(ds, mesh_var, g1, 1, junk)
                 g3 == LoadConns(ds, mesh_var, g2, 1)
             IN  LoadFields(ds, g3, 1)

\* what np.empty may hold
JunkValues == {0, 7}

Load(name) ==
    \E junk \in JunkValues :
        LET g == LoadGrid(nc, CurrentGrid, name, junk)
        IN  /\ nodes' = g.nodes
            /\ faces' = g.faces
            /\ edges' = g.edges
            /\ ffc' = g.ffc
            /\ data' = g.data
            /\ mesh_name' = g.mesh_name
            /\ extra' = g.extra
            /\ last' = Call(NoField, g.raised)
            /\ asked' = name
            /\ UNCHANGED nc

----------------------------------------------------------------------------
(* Datasets *)

\* a coordinate variable of n values with its standard_name
CoordVar(name, standard_name, n) ==
    NcVar(name, [standard_name |-> standard_name], Arr(<<n>>, [k \in 1..n |-> k - 1]))

\* the attributes of a mesh topology variable that names every role the loader reads
FullMeshAttrs(cf_role, dim) ==
    [cf_role |-> cf_role, topology_dimension |-> dim, node_coordinates |-> "lon lat",
     face_node_connectivity |-> "mesh_face_nodes",
     face_face_connectivity |-> "mesh_face_links",
     boundary_node_connectivity |-> "mesh_boundary_nodes",
     edge_node_connectivity |-> "mesh_edge_nodes"]

\* the attributes a variable of the dataset may carry where mesh selection looks
MeshKinds ==
    { FullMeshAttrs("mesh_topology", 2),
      FullMeshAttrs(" mesh_topology ", 2),
      FullMeshAttrs("mesh_topology", 3),
      FullMeshAttrs("mesh", 2),
      [cf_role |-> "mesh_topology", topology_dimension |-> 2],
      [cf_role |-> "mesh_topology", node_coordinates |-> "lon lat"],
      [topology_dimension |-> 2, node_coordinates |-> "lon lat"],
      [long_name |-> "depth"] }

MeshVarNames == <<"mesh", "mesh2", "mesh3", "mesh4">>

\* a scalar variable (a mesh topology variable holds no data)
Scalar == Arr(<<>>, <<0>>)

\* a dataset of n variables with attributes of MeshKinds, and the node coordinates
SelectDataset(kinds) ==
    [i \in 1..Len(kinds) |-> NcVar(MeshVarNames[i], kinds[i], Scalar)]
    \o <<CoordVar("lon", "longitude", LoadNumNodes), CoordVar("lat", "latitude", LoadNumNodes)>>

\* a fresh UGrid() and the dataset ds, not loaded yet
InitLoad(ds) ==
    /\ Construct(NoneArr, NoneArr, NoneArr)
    /\ nc = ds
    /\ asked = NotCalled

\* the mesh_name arguments load_grid_from_nc is called with
AskedNames == {NoName, "mesh", "mesh2", "lon", "nomesh"}

InitSelect ==
    \E n \in 0..SelectMaxMeshes : \E kinds \in [1..n -> MeshKinds] :
        InitLoad(SelectDataset(kinds))

NextSelect == \E name \in AskedNames : Load(name)

SpecSelect == InitSelect /\ [][NextSelect]_vars

StartIndexes == {0, 1, 2}
FlagValues == {-1, 0}

\* the attributes of a connectivity variable: start_index and flag_values are
\* optional
ConnAttrs ==
    {[long_name |-> "connectivity"]}
    \cup {[start_index |-> s] : s \in StartIndexes}
    \cup {[flag_values |-> v] : v \in FlagValues}
    \cup {[start_index |-> s, flag_values |-> v] : s \in StartIndexes, v \in FlagValues}

\* the two connectivity arrays the grid keeps: the name of the variable, the
\* number of nodes of an element
ConnKinds ==
    { [name |-> "mesh_face_nodes", num_ind |-> 3],
      [name |-> "mesh_edge_nodes", num_ind |-> 2] }

\* a dataset of one mesh, its node coordinates and one connectivity variable
ConnDataset(name, attrs, d) ==
    << NcVar("mesh", FullMeshAttrs("mesh_topology", 2), Scalar),
       CoordVar("lon", "longitude", LoadNumNodes),
       CoordVar("lat", "latitude", LoadNumNodes),
       NcVar(name, attrs, d) >>

\* the entries of the stored connectivity arrays
IndexValues == {-1, 0, 1, LoadNumNodes}

\* the connectivity stored as (count, num_ind) or as (num_ind, count)
InitLoadIndex ==
    \E kind \in ConnKinds : \E n \in 0..LoadMaxRows :
    \E shape \in {<<n, kind.num_ind>>, <<kind.num_ind, n>>} :
    \E f \in [1..(n * kind.num_ind) -> IndexValues] :
    \E attrs \in ConnAttrs :
        InitLoad(ConnDataset(kind.name, attrs, Arr(shape, f)))

NextLoadIndex == \E name \in {NoName, "mesh"} : Load(name)

SpecLoadIndex == InitLoadIndex /\ [][NextLoadIndex]_vars


\* connectivity of up to LayoutMaxRows elements, 0-based, stored as
\* (count, num_ind) or as (num_ind, count)
InitLoadLayout ==
    \E kind \in ConnKinds : \E n \in 0..LayoutMaxRows :
    \E shape \in {<<n, kind.num_ind>>, <<kind.num_ind, n>>} :
    \E f \in [1..(n * kind.num_ind) -> 0..LayoutMaxIndex] :
        InitLoad(ConnDataset(kind.name, [long_name |-> "connectivity"], Arr(shape, f)))

NextLoadLayout == \E name \in {NoName, "mesh"} : Load(name)

SpecLoadLayout == InitLoadLayout /\ [][NextLoadLayout]_vars

\* the attributes of a mesh topology variable where the coordinate loop looks:
\* all the roles, the roles without node_coordinates, the roles and face_coordinates
SchemaMeshAttrs ==
    { FullMeshAttrs("mesh_topology", 2),
      [cf_role |-> "mesh_topology", topology_dimension |-> 2,
       face_node_connectivity |-> "mesh_face_nodes",
       face_face_connectivity |-> "mesh_face_links",
       boundary_node_connectivity |-> "mesh_boundary_nodes",
       edge_node_connectivity |-> "mesh_edge_nodes"],
      [cf_role |-> "mesh_topology", topology_dimension |-> 2,
       node_coordinates |-> "lon lat",
       face_coordinates |-> "mesh_face_lon mesh_face_lat",
       face_node_connectivity |-> "mesh_face_nodes",
       face_face_connectivity |-> "mesh_face_links",
       boundary_node_connectivity |-> "mesh_boundary_nodes",
       edge_node_connectivity |-> "mesh_edge_nodes"] }

\* the attributes of a coordinate variable
CoordAttrs ==
    { [standard_name |-> "longitude"], [standard_name |-> "latitude"],
      [standard_name |-> "projection_x_coordinate"], [long_name |-> "x"] }

\* the variables of the given name a dataset may hold: none, or one of some attributes
CoordVars(name, attrs) ==
    {<<>>} \cup { <<NcVar(name, a, Arr(<<LoadNumNodes>>, [k \in 1..LoadNumNodes |-> k - 1]))>> :
                    a \in attrs }

InitSchema ==
    \E attrs \in SchemaMeshAttrs :
    \E lon \in CoordVars("lon", CoordAttrs) : \E lat \in CoordVars("lat", CoordAttrs) :
    \E flon \in CoordVars("mesh_face_lon", {[standard_name |-> "longitude"]}) :
    \E flat \in CoordVars("mesh_face_lat", {[standard_name |-> "latitude"],
                                            [long_name |-> "y"]}) :
        InitLoad(<<NcVar("mesh", attrs, Scalar)>> \o lon \o lat \o flon \o flat)

NextSchema == \E name \in {NoName, "mesh"} : Load(name)

SpecSchema == InitSchema /\ [][NextSchema]_vars

\* the connectivity roles a mesh topology variable may declare
ConnRoles ==
    { "face_node_connectivity", "face_face_connectivity",
      "boundary_node_connectivity", "edge_node_connectivity" }

\* the value of an attribute of the mesh topology variable of the datasets below
MeshAttr(a) ==
    CASE a = "cf_role" -> "mesh_topology"
      [] a = "topology_dimension" -> 2
      [] a = "node_coordinates" -> "lon lat"
      [] OTHER -> FullMeshAttrs("mesh_topology", 2)[a]

\* the connectivity variables a dataset may store, one face and one edge
ConnVariables ==
    << NcVar("mesh_face_nodes", [long_name |-> "connectivity"], Arr(<<1, 3>>, <<0, 1, 0>>)),
       NcVar("mesh_face_links", [long_name |-> "connectivity"], Arr(<<1, 3>>, <<-1, -1, -1>>)),
       NcVar("mesh_boundary_nodes", [long_name |-> "connectivity"], Arr(<<1, 2>>, <<1, 0>>)),
       NcVar("mesh_edge_nodes", [long_name |-> "connectivity"], Arr(<<1, 2>>, <<0, 1>>)) >>

\* the variables of the sequence vs from the i-th on whose names are in present
RECURSIVE Keep(_, _, _)
Keep(vs, present, i) ==
    IF i > Len(vs) THEN <<>>
    ELSE (IF vs[i].name \in present THEN <<vs[i]>> ELSE <<>>) \o Keep(vs, present, i + 1)

\* a data variable on the nodes of the mesh
NodeField ==
    NcVar("mesh_u", [location |-> "node", mesh |-> "mesh"],
          Arr(<<LoadNumNodes>>, [k \in 1..LoadNumNodes |-> 0]))

\* a dataset of one mesh that declares the roles of declared and stores the
\* connectivity variables of present
RolesDataset(declared, present) ==
    << NcVar("mesh",
             [a \in {"cf_role", "topology_dimension", "node_coordinates"} \cup declared |->
                 MeshAttr(a)],
             Scalar),
       CoordVar("lon", "longitude", LoadNumNodes),
       CoordVar("lat", "latitude", LoadNumNodes) >>
    \o Keep(ConnVariables, present, 1) \o <<NodeField>>

InitRoles ==
    \E declared \in SUBSET ConnRoles :
    \E present \in SUBSET { ConnVariables[i].name : i \in 1..Len(ConnVariables) } :
        InitLoad(RolesDataset(declared, present))

NextRoles == \E name \in {NoName, "mesh"} : Load(name)

SpecRoles == InitRoles /\ [][NextRoles]_vars

\* the face_face_connectivity setter: reshapes to (-1, num_vertices), which is
\* None without faces (TypeError), and keeps no reference to the result
SetFaceFace(a) ==
    /\ last' = Call(DataSet("face_face_connectivity", "", a),
                    IF IsNone(faces) THEN "TypeError"
                    ELSE IF ~CanReshape(a, NCols(faces)) THEN "ValueError" ELSE "")
    /\ UNCHANGED <<nodes, faces, edges, ffc, data, loaderVars>>

\* the face_face_connectivity deleter
DelFaceFace ==
    /\ ffc' = NoneArr
    /\ last' = Call(NoField, "")
    /\ UNCHANGED <<nodes, faces, edges, data, loaderVars>>

\* the arrays assigned to face_face_connectivity
FaceFaceInputs ==
    { Arr(<<1, 3>>, <<-1, -1, -1>>), Arr(<<6>>, <<-1, 1, -1, -1, 0, -1>>),
      Arr(<<2>>, <<-1, -1>>) }

\* a mesh without faces, of one face or of two, and a dataset that may store faces
\* and their face_face_connectivity
InitSetter ==
    \E f \in {NoneArr, Arr(<<1, 3>>, <<0, 1, 0>>), Arr(<<2, 3>>, <<0, 1, 0, 1, 0, 1>>)} :
    \E present \in SUBSET {"mesh_face_nodes", "mesh_face_links"} :
        /\ Construct(NodeArr(LoadNumNodes), f, NoneArr)
        /\ nc = RolesDataset(ConnRoles, present)
        /\ asked = NotCalled

NextSetter ==
    \/ \E a \in FaceFaceInputs : SetFaceFace(a)
    \/ DelFaceFace
    \/ BuildFaceFace
    \/ \E name \in {NoName, "mesh"} : Load(name)

SpecSetter == InitSetter /\ [][NextSetter]_vars

\* the value a call returns: None is <<>>, the index i is <<i>>
PyNone == <<>>

\* locate_face_simple(point): the loop over the faces calls point_in_poly, a name
\* the module never defines (it imports point_in_tri), after it has indexed the
\* nodes with the first face; a call that raises returns nothing
LocateFaceSimple(point) ==
    /\ last' = [arg |-> DataSet("locate_face_simple", "", Arr(<<2>>, point)),
                raised |->
                    IF IsNone(faces) THEN "TypeError"
                    ELSE IF PyLen(faces) = 0 THEN ""
                    ELSE IF IsNone(nodes) THEN "TypeError"
                    ELSE IF \E j \in 1..NCols(faces) :
                               Row(faces, 0)[j] \notin (0 - PyLen(nodes))..(PyLen(nodes) - 1)
                    THEN "IndexError"
                    ELSE "NameError",
                returned |-> PyNone]
    /\ UNCHANGED <<nodes, faces, edges, ffc, data, loaderVars>>

\* the points looked for: the lattice the nodes lie on, doubled so that the
\* centres of its cells are among them
Points == { <<x, y>> : x \in 0..2, y \in 0..2 }

\* the nodes doubled likewise
LocateNodes(n) == [NodeArr(n) EXCEPT !.flat = [k \in 1..(2 * n) |-> 2 * @[k]]]

InitLocate ==
    \E n \in 0..LocateMaxNodes : \E k \in 0..LocateMaxFaces :
    \E f \in [1..(k * 3) -> 0..(LocateMaxNodes - 1)] :
        \/ Construct(LocateNodes(n), Arr(<<k, 3>>, f), NoneArr) /\ NoDataset
        \/ Construct(LocateNodes(n), NoneArr, NoneArr) /\ NoDataset

NextLocate == \E point \in Points : LocateFaceSimple(point)

SpecLocate == InitLocate /\ [][NextLocate]_vars

\* the column j (0 or 1) of the nodes as a 1-D array
Column(a, j) == Arr(<<PyLen(a)>>, [k \in 1..PyLen(a) |-> a.flat[2 * (k - 1) + j + 1]])

\* the dataset save_as_netcdf writes for the nodes n, the faces f and the edges e
SavedDataset(n, f, e) ==
    << NcVar("mesh",
             [cf_role |-> "mesh_topology",
              long_name |-> "Topology data of 2D unstructured mesh",
              topology_dimension |-> 2,
              node_coordinates |-> "node_lon node_lat",
              face_node_connectivity |-> "mesh_face_nodes",
              edge_node_connectivity |-> "mesh_edge_nodes",
              edge_coordinates |-> "mesh_edge_lon mesh_edge_lat",
              face_coordinates |-> "mesh_face_lon mesh_face_lat",
              face_edge_connectivity |-> "mesh_face_edges",
              face_face_connectivity |-> "mesh_face_links"],
             Scalar),
       NcVar("mesh_face_nodes",
             [cf_role |-> "face_node_connectivity",
              long_name |-> "Maps every triangular face to its three corner nodes.",
              start_index |-> 0],
             f),
       NcVar("mesh_edge_nodes",
             [cf_role |-> "edge_node_connectivity",
              long_name |-> "Maps every edge to the two nodes that it connects.",
              start_index |-> 0],
             e),
       NcVar("node_lon",
             [standard_name |-> "longitude", long_name |-> "Longitude of 2D mesh nodes.",
              units |-> "degrees_east"],
             Column(n, 0)),
       NcVar("node_lat",
             [standard_name |-> "latitude", long_name |-> "Latitude of 2D mesh nodes.",
              units |-> "degrees_north"],
             Column(n, 1)) >>

\* save_as_netcdf(filepath): the file is created first, then len() of the nodes,
\* the edges and the faces is taken for the dimensions (TypeError on None)
SaveAsNetcdf ==
    LET none == IsNone(nodes) \/ IsNone(edges) \/ IsNone(faces)
    IN  /\ nc' = IF none THEN <<>> ELSE SavedDataset(nodes, faces, edges)
        /\ last' = Call(DataSet("save_as_netcdf", "", NoneArr),
                        IF none THEN "TypeError" ELSE "")
        /\ UNCHANGED <<nodes, faces, edges, ffc, data, mesh_name, extra, asked>>

InitRoundTrip ==
    \E n \in {NoneArr} \cup { NodeArr(k) : k \in 1..RoundTripMaxNodes } :
    \E f \in {NoneArr} \cup ArraysOf(RoundTripMaxRows, 3, 0..(RoundTripMaxNodes - 1)) :
    \E e \in {NoneArr} \cup ArraysOf(RoundTripMaxRows, 2, 0..(RoundTripMaxNodes - 1)) :
        Construct(n, f, e) /\ NoDataset

\* a load needs a file: one that save_as_netcdf has written
NextRoundTrip ==
    \/ SaveAsNetcdf
    \/ nc # <<>> /\ \E name \in {NoName, "mesh"} : Load(name)

SpecRoundTrip == InitRoundTrip /\ [][NextRoundTrip]_vars

----------------------------------------------------------------------------
(* The claims about the mesh store *)

\* the array that holds the elements of a location
LocationArray(location) ==
    CASE location = "node" -> nodes
      [] location = "edge" -> edges
      [] location = "face" -> faces

\* the number of elements of a location; a location whose array is None has none
ElementCount(location) ==
    IF IsNone(LocationArray(location)) THEN 0 ELSE PyLen(LocationArray(location))

\* the DataSet f has as many values as the mesh has elements of f.location; a
\* location whose array is None has no length to match (len(None) is a TypeError)
SizeMatches(f) ==
    /\ ~IsNone(LocationArray(f.location))
    /\ PyLen(f.data) = PyLen(LocationArray(f.location))

C2_FieldLengthsMatch ==
    \A k \in DOMAIN data : PyLen(data[k].data) = ElementCount(data[k].location)

\* the node indexes an index array holds (none for None)
IndexesOf(a) == IF IsNone(a) THEN {} ELSE { a.flat[i] : i \in 1..Len(a.flat) }

\* C3 (as claimed): every node index stored in the faces and the edges lies in
\* [0, len(nodes))
C3_IndexesInRange ==
    \A x \in IndexesOf(faces) \cup IndexesOf(edges) : 0 <= x /\ x < PyLen(nodes)

----------------------------------------------------------------------------
(* The claims about the connectivity builders *)

FaceIds == 0..(PyLen(faces) - 1)

Positions == 0..2

\* the two nodes of the edge between local vertices j-1 and j (cyclic) of face i
SlotEdge(i, j) == { Row(faces, i)[((j + 2) % 3) + 1], Row(faces, i)[j + 1] }

\* the entry (i, j) of the adjacency array
Neighbor(i, j) == ffc.flat[i * 3 + j + 1]

\* the faces that have the edge e at some local position
FacesWith(e) == { i \in FaceIds : \E j \in Positions : SlotEdge(i, j) = e }

\* every face is a triangle: three different nodes
Triangular == \A i \in FaceIds : Cardinality({ Row(faces, i)[v] : v \in 1..3 }) = 3

\* C4: after build_face_face_connectivity the adjacency array has shape
\* (num_faces, 3), every entry other than -1 is a face index, and if face i lists
\* face k at position j then face k lists face i at another slot, one whose edge
\* is the edge j of face i.
C4_FaceFaceSymmetric ==
    ~IsNone(ffc) =>
        /\ ffc.shape = <<PyLen(faces), 3>>
        /\ Len(ffc.flat) = PyLen(faces) * 3
        /\ \A i \in FaceIds, j \in Positions :
              Neighbor(i, j) # -1 =>
                /\ Neighbor(i, j) \in FaceIds
                /\ \E m \in Positions :
                      /\ <<Neighbor(i, j), m>> # <<i, j>>
                      /\ Neighbor(Neighbor(i, j), m) = i
                      /\ SlotEdge(Neighbor(i, j), m) = SlotEdge(i, j)

\* C4 witness: an adjacency array built over faces of which three share an edge,
\* with two different faces listed as each other's neighbour
C4_Witness ==
    /\ ~IsNone(ffc)
    /\ \E i \in FaceIds, j \in Positions : Neighbor(i, j) \notin {-1, i}
    /\ \E i \in FaceIds, j \in Positions : Cardinality(FacesWith(SlotEdge(i, j))) = 3
    /\ Triangular

\* every edge occurs in at most two faces
Manifold == \A i \in FaceIds, j \in Positions : Cardinality(FacesWith(SlotEdge(i, j))) <= 2

BoundaryEdges ==
    { SlotEdge(i, j) : i \in FaceIds, j \in Positions } \cap
    { e \in SUBSET (0..BuildMaxIndex) : Cardinality(FacesWith(e)) = 1 }

SentinelSlots == { s \in FaceIds \X Positions : Neighbor(s[1], s[2]) = -1 }

\* C5: after build_face_face_connectivity on a manifold mesh of triangles (three
\* different nodes per face, every edge in at most two faces), slot (i, j) holds
\* -1 exactly when the edge between local vertices j-1 and j of face i belongs to
\* no other face, and otherwise the index of the one other face with that edge;
\* there is exactly one sentinel per boundary edge.
C5_SentinelIffBoundary ==
    (~IsNone(ffc) /\ Triangular /\ Manifold) =>
        /\ \A i \in FaceIds, j \in Positions :
              IF FacesWith(SlotEdge(i, j)) = {i}
              THEN Neighbor(i, j) = -1
              ELSE Neighbor(i, j) \in FacesWith(SlotEdge(i, j)) \ {i}
        /\ Cardinality(SentinelSlots) = Cardinality(BoundaryEdges)

\* C5 witness: an adjacency array built over a manifold mesh of three triangles
\* that has both an edge shared by two faces and a boundary edge
C5_Witness ==
    /\ ~IsNone(ffc) /\ Triangular /\ Manifold
    /\ PyLen(faces) = 3
    /\ BoundaryEdges # {}
    /\ \E i \in FaceIds, j \in Positions : Neighbor(i, j) \notin {-1, i}

\* the rows of an edge array, as a sequence of pairs (an empty 1-D array has none)
EdgeRows(a) == IF Len(a.shape) = 2 THEN [r \in 1..PyLen(a) |-> Row(a, r - 1)] ELSE <<>>

\* the pair (face[j-1], face[j]) of face i, smaller node first
SortedPair(i, j) ==
    LET a == Row(faces, i)[((j + 2) % 3) + 1]
        b == Row(faces, i)[j + 1]
    IN  <<IF a < b THEN a ELSE b, IF a < b THEN b ELSE a>>

\* C6: build_edges stores an edge collection without a duplicate pair, every pair
\* with a <= b, that is as a set the set of the sorted pairs (face[j-1], face[j])
\* of every face and every local position j; it leaves the faces unchanged.
C6_BuildEdgesUnique ==
    [][ (~IsNone(faces) /\ last'.raised = "") =>
          /\ ~IsNone(edges')
          /\ Len(edges'.flat) = 2 * Len(EdgeRows(edges'))
          /\ \A r, q \in 1..Len(EdgeRows(edges')) :
                r # q => EdgeRows(edges')[r] # EdgeRows(edges')[q]
          /\ \A r \in 1..Len(EdgeRows(edges')) :
                EdgeRows(edges')[r][1] <= EdgeRows(edges')[r][2]
          /\ { EdgeRows(edges')[r] : r \in 1..Len(EdgeRows(edges')) }
                = { SortedPair(i, j) : i \in FaceIds, j \in Positions }
          /\ faces' = faces ]_vars

\* C6 witness: the edges built from two triangles that share one edge: five edges
C6_Witness ==
    /\ ~IsNone(faces) /\ ~IsNone(edges)
    /\ PyLen(faces) = 2 /\ Triangular
    /\ edges.shape = <<5, 2>>


----------------------------------------------------------------------------
(* The claims about the loader *)

\* the state of the grid object that a load may touch
gridVars == <<nodes, faces, edges, ffc, data, mesh_name, extra>>

\* the names of the variables of the dataset that are valid mesh topology
\* variables: cf_role mesh_topology (blanks around it aside), topology_dimension 2
Candidates ==
    { nc[i].name : i \in { j \in 1..Len(nc) :
        /\ "cf_role" \in DOMAIN nc[j].attrs
        /\ Strip(nc[j].attrs.cf_role) = "mesh_topology"
        /\ "topology_dimension" \in DOMAIN nc[j].attrs
        /\ nc[j].attrs.topology_dimension = 2 } }

ConnVar(ds) ==
    ds[CHOOSE i \in 1..Len(ds) : ds[i].name \in {"mesh_face_nodes", "mesh_edge_nodes"}]

\* whether the entry x of the variable var is its declared flag value
IsFlag(var, x) == "flag_values" \in DOMAIN var.attrs /\ var.attrs.flag_values = x

\* the variable var declares start_index = 1 and holds 1-based node indexes (and
\* flag values, if it declares one) of a mesh of num_nodes nodes
OneBased(var, num_nodes) ==
    /\ "start_index" \in DOMAIN var.attrs
    /\ var.attrs.start_index = 1
    /\ \A k \in 1..Len(var.data.flat) :
          var.data.flat[k] \in 1..num_nodes \/ IsFlag(var, var.data.flat[k])

\* the same logical array stored 0-based
ZeroBasedData(var) ==
    [var.data EXCEPT !.flat = [k \in 1..Len(var.data.flat) |->
        IF IsFlag(var, var.data.flat[k]) THEN var.data.flat[k] ELSE var.data.flat[k] - 1]]

\* the datasets that store the connectivity of ds 0-based: start_index = 0, or no
\* start_index attribute at all
ZeroBasedTwins(ds) ==
    LET var == ConnVar(ds)
        others == DOMAIN var.attrs \ {"start_index"}
        twin(attrs) == [i \in 1..Len(ds) |->
            IF ds[i].name = var.name THEN NcVar(var.name, attrs, ZeroBasedData(var))
            ELSE ds[i]]
    IN  { twin([var.attrs EXCEPT !.start_index = 0]),
          twin([a \in others |-> var.attrs[a]]) }

\* C8: a connectivity array declared with start_index = 1 that holds 1-based
\* indexes loads to node indexes in [0, num_nodes) (flag values aside), and the
\* faces and edges loaded are those that the load of the same logical array stored
\* 0-based yields, with start_index = 0 as well as with no start_index attribute.
C8_StartIndexOne ==
    [][ (/\ asked' # NotCalled
         /\ last'.raised = ""
         /\ OneBased(ConnVar(nc), PyLen(Variable(nc, "lon").data))) =>
          LET var == ConnVar(nc)
              loaded == IF var.name = "mesh_face_nodes" THEN faces' ELSE edges'
          IN  /\ ~IsNone(loaded)
              /\ Len(loaded.flat) = Len(var.data.flat)
              /\ \A k \in 1..Len(loaded.flat) :
                    \/ loaded.flat[k] \in 0..(PyLen(nodes') - 1)
                    \/ IsFlag(var, loaded.flat[k])
              /\ \A twin \in ZeroBasedTwins(nc) : \A junk \in JunkValues :
                    LET g == LoadGrid(twin, CurrentGrid, asked', junk)
                    IN  /\ g.raised = ""
                        /\ g.faces = faces'
                        /\ g.edges = edges' ]_vars

\* the faces (1, 2, flag) stored 1-based have been loaded as (0, 1, flag)
C8_Witness ==
    /\ asked # NotCalled
    /\ last.raised = ""
    /\ ConnVar(nc).name = "mesh_face_nodes"
    /\ ConnVar(nc).attrs = [start_index |-> 1, flag_values |-> -1]
    /\ ConnVar(nc).data = Arr(<<1, 3>>, <<1, 2, -1>>)
    /\ faces = Arr(<<1, 3>>, <<0, 1, -1>>)

\* C9: when the connectivity variable declares a flag value, every entry of the
\* stored array equal to it is that flag value in the loaded array, whatever
\* start_index is (the loaded array has the stored layout or the transposed one).
C9_FlagPreserved ==
    [][ (/\ asked' # NotCalled
         /\ last'.raised = ""
         /\ "flag_values" \in DOMAIN ConnVar(nc).attrs) =>
          LET var == ConnVar(nc)
              flag == var.attrs.flag_values
              loaded == IF var.name = "mesh_face_nodes" THEN faces' ELSE edges'
              kept(stored) == \A k \in 1..Len(stored.flat) :
                                 stored.flat[k] = flag => loaded.flat[k] = flag
          IN  /\ ~IsNone(loaded)
              /\ Len(loaded.flat) = Len(var.data.flat)
              /\ kept(var.data) \/ kept(Transpose(var.data)) ]_vars

\* faces stored (3, 1) with start_index = 2 and the flag value 0: the flag has been
\* kept, the indexes shifted
C9_Witness ==
    /\ asked # NotCalled
    /\ last.raised = ""
    /\ ConnVar(nc).name = "mesh_face_nodes"
    /\ ConnVar(nc).attrs = [start_index |-> 2, flag_values |-> 0]
    /\ ConnVar(nc).data = Arr(<<3, 1>>, <<0, 2, 1>>)
    /\ faces = Arr(<<1, 3>>, <<0, 0, -1>>)


\* the dataset that stores the connectivity of ds in the other layout
TransposedTwin(ds) ==
    LET var == ConnVar(ds)
    IN  [i \in 1..Len(ds) |->
            IF ds[i].name = var.name THEN NcVar(var.name, var.attrs, Transpose(var.data))
            ELSE ds[i]]

\* C10: the faces and the edges that a load yields are those that the load of the
\* same connectivity stored in the other layout yields, (num_ind, count) for
\* (count, num_ind), whatever the number of elements.
C10_LayoutEquivalent ==
    [][ (asked' # NotCalled /\ last'.raised = "") =>
          \A junk \in JunkValues :
              LET g == LoadGrid(TransposedTwin(nc), CurrentGrid, asked', junk)
              IN  /\ g.raised = ""
                  /\ g.faces = faces'
                  /\ g.edges = edges' ]_vars


\* the variable of the dataset ds that is its mesh topology
MeshVar(ds) == ds[CHOOSE i \in 1..Len(ds) : ds[i].name = "mesh"]

\* the coordinate role of the mesh of ds names a variable that ds lacks, or one
\* whose standard_name is neither longitude nor latitude
BadCoordinates(ds, role) ==
    /\ role \in DOMAIN MeshVar(ds).attrs
    /\ LET names == Split(MeshVar(ds).attrs[role])
       IN  \E k \in 1..Len(names) :
              \/ \A i \in 1..Len(ds) : ds[i].name # names[k]
              \/ \E i \in 1..Len(ds) :
                    /\ ds[i].name = names[k]
                    /\ \/ "standard_name" \notin DOMAIN ds[i].attrs
                       \/ ds[i].attrs.standard_name \notin {"longitude", "latitude"}

\* the schema errors of a dataset: no node_coordinates, bad coordinate variables
SchemaError(ds) ==
    \/ "node_coordinates" \notin DOMAIN MeshVar(ds).attrs
    \/ BadCoordinates(ds, "node_coordinates")
    \/ BadCoordinates(ds, "face_coordinates")

\* C11: a load that fails on a dataset with a schema error leaves the grid as it
\* was: mesh_name, nodes, coordinate arrays, connectivity arrays and data fields.
C11_NoPartialLoad ==
    [][ (asked' # NotCalled /\ SchemaError(nc) /\ last'.raised # "") =>
          gridVars' = gridVars ]_vars


\* the connectivity roles that the mesh of ds declares
Declared(ds) == ConnRoles \cap DOMAIN MeshVar(ds).attrs

\* whether ds holds a variable of the given name
Stored(ds, name) == \E i \in 1..Len(ds) : ds[i].name = name

\* C12: a load of a mesh that declares a connectivity role whose variable the
\* dataset lacks fails with an error.
C12_MissingVariableReported ==
    [][ (/\ asked' # NotCalled
         /\ \E role \in Declared(nc) : ~Stored(nc, MeshVar(nc).attrs[role])) =>
          last'.raised # "" ]_vars


\* C13: a load of a mesh that leaves a connectivity role undeclared does not raise
\* for it: with the variables of the declared roles all stored, the load returns,
\* the faces and edges of an undeclared role are as before, those of a declared role
\* are loaded, and so are the data fields.
C13_UndeclaredRoleSkipped ==
    [][ (/\ asked' # NotCalled
         /\ Declared(nc) # ConnRoles
         /\ \A role \in Declared(nc) : Stored(nc, MeshVar(nc).attrs[role])) =>
          /\ last'.raised = ""
          /\ "face_node_connectivity" \notin Declared(nc) => faces' = faces
          /\ "edge_node_connectivity" \notin Declared(nc) => edges' = edges
          /\ "face_node_connectivity" \in Declared(nc) => faces' = ConnVariables[1].data
          /\ "edge_node_connectivity" \in Declared(nc) => edges' = ConnVariables[4].data
          /\ "u" \in DOMAIN data' ]_vars


\* C14: an assignment to face_face_connectivity that returns stores the array,
\* reshaped to (num_faces, arity): the direct assignment as well as the one the
\* loader makes for a face_face_connectivity variable of the dataset.
C14_FaceFaceStored ==
    [][ /\ (last'.arg.name = "face_face_connectivity" /\ last'.raised = "") =>
              ffc' = Reshape(last'.arg.data, NCols(faces))
        /\ (/\ asked = NotCalled
            /\ asked' # NotCalled
            /\ last'.raised = ""
            /\ Stored(nc, "mesh_face_links")) =>
              ffc' = Reshape(Variable(nc, "mesh_face_links").data, 3) ]_vars


\* the coordinates of the node i
NodeAt(i) == Row(nodes, i)

\* twice the signed area of the triangle a, b, c
Cross(a, b, c) == (b[1] - a[1]) * (c[2] - a[2]) - (b[2] - a[2]) * (c[1] - a[1])

\* the triangle of the face i contains the point p, its border included
InFace(i, p) ==
    LET a == NodeAt(Row(faces, i)[1])
        b == NodeAt(Row(faces, i)[2])
        c == NodeAt(Row(faces, i)[3])
        d == <<Cross(a, b, p), Cross(b, c, p), Cross(c, a, p)>>
    IN  ~((\E k \in 1..3 : d[k] < 0) /\ (\E k \in 1..3 : d[k] > 0))

\* the mesh has nodes and faces, and every face names nodes of the mesh
Locatable ==
    /\ ~IsNone(nodes)
    /\ ~IsNone(faces)
    /\ \A k \in 1..Len(faces.flat) : faces.flat[k] \in 0..(PyLen(nodes) - 1)

\* C15: locate_face_simple(point) returns the lowest index of a face whose
\* triangle contains the point, None when there is none, and changes no mesh state.
C15_LocateFirstFace ==
    [][ (last'.arg.name = "locate_face_simple" /\ Locatable) =>
          LET p == last'.arg.data.flat
              hits == { i \in 0..(PyLen(faces) - 1) : InFace(i, p) }
          IN  /\ last'.raised = ""
              /\ last'.returned =
                    IF hits = {} THEN PyNone
                    ELSE <<CHOOSE i \in hits : \A j \in hits : i <= j>>
              /\ gridVars' = gridVars ]_vars


\* the attributes of a mesh topology variable that name other variables
ReferenceAttrs ==
    { "node_coordinates", "face_coordinates", "edge_coordinates", "boundary_coordinates",
      "face_node_connectivity", "face_face_connectivity", "face_edge_connectivity",
      "boundary_node_connectivity", "edge_node_connectivity" }

\* the variable names the mesh of ds refers to
References(ds) ==
    UNION { { Split(MeshVar(ds).attrs[a])[k] : k \in 1..Len(Split(MeshVar(ds).attrs[a])) } :
            a \in ReferenceAttrs \cap DOMAIN MeshVar(ds).attrs }

\* C16: the dataset save_as_netcdf writes for a mesh with nodes, faces and edges
\* holds every variable its mesh topology variable refers to, and a load of it
\* returns without error with the nodes, faces and edges that were saved.
C16_SaveLoadRoundTrip ==
    [][ /\ (last'.arg.name = "save_as_netcdf" /\ last'.raised = "") =>
              \A name \in References(nc') : Stored(nc', name)
        /\ (last'.arg = NoField /\ asked' # NotCalled) =>
              /\ last'.raised = ""
              /\ nodes' = nodes
              /\ faces' = faces
              /\ edges' = edges
              /\ Column(nodes', 0) = Variable(nc, "node_lon").data
              /\ Column(nodes', 1) = Variable(nc, "node_lat").data
              /\ faces' = Variable(nc, "mesh_face_nodes").data
              /\ edges' = Variable(nc, "mesh_edge_nodes").data ]_vars

====
